---- MODULE Spec2Model ----
(***************************************************************************)
(* A model of android/src/main/python/ytdlp_services.py: the retrying      *)
(* fetch (_get_ytdlp_info), the format filters and selection reducers of   *)
(* get_video_streams / get_audio_streams, and the two-branch orchestration *)
(* of get_unified_streams.                                                 *)
(*                                                                         *)
(* Python values are modelled as follows.                                  *)
(*   str            a sequence of one-character strings                    *)
(*   dict field     [k |-> "missing" | "none" | "str" | "int", ...]:       *)
(*                  key absent, key present with None, or a value          *)
(*   exception      [type, msg, attempt, codecs]                           *)
(* Fields of a format descriptor that are only copied into the StreamInfo  *)
(* (ext, width, resolution, filesize, format_note) are left out.           *)
(***************************************************************************)
EXTENDS Integers, Sequences, FiniteSets, TLC

(***************************************************************************)
(* Strings                                                                 *)
(***************************************************************************)
UpperChars == <<"A","B","C","D","E","F","G","H","I","J","K","L","M",
                "N","O","P","Q","R","S","T","U","V","W","X","Y","Z">>

LowerChars == <<"a","b","c","d","e","f","g","h","i","j","k","l","m",
                "n","o","p","q","r","s","t","u","v","w","x","y","z">>

\* str.lower(), one character
LowerChar(c) ==
    IF \E i \in DOMAIN UpperChars : UpperChars[i] = c
    THEN LowerChars[CHOOSE i \in DOMAIN UpperChars : UpperChars[i] = c]
    ELSE c

\* str.lower()
Lower(s) == [i \in 1..Len(s) |-> LowerChar(s[i])]

\* `sub in s`
Contains(s, sub) ==
    \E i \in 0..(Len(s) - Len(sub)) : SubSeq(s, i + 1, i + Len(sub)) = sub

\* s.endswith(suf)
EndsWith(s, suf) ==
    /\ Len(suf) <= Len(s)
    /\ SubSeq(s, Len(s) - Len(suf) + 1, Len(s)) = suf

\* the string literals the code compares against
StrNone == <<"n","o","n","e">>
StrManifest == <<"m","a","n","i","f","e","s","t">>
StrVideoplayback == <<"v","i","d","e","o","p","l","a","y","b","a","c","k">>
StrAvc1 == <<"a","v","c","1">>
StrAvc == <<"a","v","c">>
StrH264 == <<"h","2","6","4">>
StrVp9 == <<"v","p","9">>
StrVp09 == <<"v","p","0","9">>
StrAv1 == <<"a","v","1">>
StrAv01 == <<"a","v","0","1">>
StrMp4a == <<"m","p","4","a">>
StrAac == <<"a","a","c">>
StrOpus == <<"o","p","u","s">>

(***************************************************************************)
(* Dictionary fields and optional values                                   *)
(***************************************************************************)
Missing == [k |-> "missing", s |-> <<>>, n |-> 0]
PyNone == [k |-> "none", s |-> <<>>, n |-> 0]
PyStr(str) == [k |-> "str", s |-> str, n |-> 0]
PyInt(num) == [k |-> "int", s |-> <<>>, n |-> num]

\* dict.get(key): None when the key is absent
Get(field) == IF field.k = "missing" THEN PyNone ELSE field

\* dict.get(key, default)
GetDefault(field, default) == IF field.k = "missing" THEN default ELSE field

\* bool(x) of a str, an int or None
Truthy(x) ==
    \/ x.k = "str" /\ x.s # <<>>
    \/ x.k = "int" /\ x.n # 0

\* `x or 0` for an optional number
OrZero(x) == IF Truthy(x) THEN x.n ELSE 0

\* abs()
Abs(i) == IF i < 0 THEN -i ELSE i

(***************************************************************************)
(* Exceptions and call outcomes                                            *)
(***************************************************************************)
Exc(type, msg) == [type |-> type, msg |-> msg, attempt |-> 0, codecs |-> {}]

\* a yt_dlp.utils.DownloadError raised by the provider on attempt number a
DownloadError(a) ==
    [type |-> "DownloadError", msg |-> "download error", attempt |-> a, codecs |-> {}]

NoExc == [type |-> "none", msg |-> "", attempt |-> 0, codecs |-> {}]

\* a ValueError whose message ends with the list `available_codecs`
NoCandidates(msg, available_codecs) ==
    [type |-> "ValueError", msg |-> msg, attempt |-> 0, codecs |-> available_codecs]

Return(v) == [tag |-> "return", val |-> v, exc |-> NoExc]
Raise(e) == [tag |-> "raise", val |-> <<>>, exc |-> e]
NoOutcome == [tag |-> "none", val |-> <<>>, exc |-> NoExc]

(***************************************************************************)
(* _parse_quality                                                          *)
(***************************************************************************)
DigitChars == <<"0","1","2","3","4","5","6","7","8","9">>

IsDigitChar(c) == \E i \in DOMAIN DigitChars : DigitChars[i] = c

DigitVal(c) == (CHOOSE i \in DOMAIN DigitChars : DigitChars[i] = c) - 1

IsSpaceChar(c) == c \in {" ", "\t", "\n"}

\* str.strip()
Strip(s) ==
    LET keep == {i \in 1..Len(s) : ~IsSpaceChar(s[i])}
    IN  IF keep = {} THEN <<>>
        ELSE LET lo == CHOOSE i \in keep : \A j \in keep : i <= j
                 hi == CHOOSE i \in keep : \A j \in keep : j <= i
             IN  SubSeq(s, lo, hi)

\* str.isdigit()
IsDigit(s) == s # <<>> /\ \A i \in 1..Len(s) : IsDigitChar(s[i])

RECURSIVE DigitsValue(_, _)
\* the value of a run of decimal digits, most significant first
DigitsValue(ds, acc) ==
    IF ds = <<>> THEN acc
    ELSE DigitsValue(Tail(ds), 10 * acc + DigitVal(Head(ds)))

\* int(s): surrounding whitespace, an optional sign, digits with single
\* underscores between them; anything else is a ValueError (ok = FALSE)
PyIntParse(s) ==
    LET t == Strip(s)
        signed == t # <<>> /\ t[1] \in {"+", "-"}
        body == IF signed THEN Tail(t) ELSE t
        wellFormed ==
            /\ body # <<>>
            /\ \A i \in 1..Len(body) : IsDigitChar(body[i]) \/ body[i] = "_"
            /\ body[1] # "_" /\ body[Len(body)] # "_"
            /\ \A i \in 1..(Len(body) - 1) : ~(body[i] = "_" /\ body[i + 1] = "_")
        magnitude == DigitsValue(SelectSeq(body, IsDigitChar), 0)
    IN  IF ~wellFormed THEN [ok |-> FALSE, n |-> 0]
        ELSE [ok |-> TRUE, n |-> IF signed /\ t[1] = "-" THEN -magnitude ELSE magnitude]

\* a k-notation table where 1k is 1000
k_formats_linear ==
    { <<<<"2","k">>, 1440>>, <<<<"4","k">>, 2160>>, <<<<"8","k">>, 4320>>,
      <<<<"1","k">>, 1000>> }

k_formats ==
    { <<<<"2","k">>, 1440>>, <<<<"4","k">>, 2160>>, <<<<"8","k">>, 4320>>,
      <<<<"1","k">>, 1080>> }

aliases ==
    { <<<<"h","d">>, 720>>, <<<<"h","i","g","h">>, 720>>,
      <<<<"f","h","d">>, 1080>>, <<<<"f","u","l","l"," ","h","d">>, 1080>>,
      <<<<"f","u","l","l","h","d">>, 1080>>,
      <<<<"q","h","d">>, 1440>>, <<<<"q","u","a","d"," ","h","d">>, 1440>>,
      <<<<"q","u","a","d","h","d">>, 1440>>,
      <<<<"u","h","d">>, 2160>>, <<<<"u","l","t","r","a"," ","h","d">>, 2160>>,
      <<<<"u","l","t","r","a","h","d">>, 2160>> }

\* table.get(key, default) for a table given as a set of <<key, value>> pairs
Lookup(table, key, default) ==
    IF \E e \in table : e[1] = key
    THEN (CHOOSE e \in table : e[1] = key)[2]
    ELSE default

InTable(table, key) == \E e \in table : e[1] = key

_parse_quality(quality_str) ==
    IF quality_str = <<>> THEN 0
    ELSE LET quality_lower == Strip(Lower(quality_str))
         IN  IF EndsWith(quality_lower, <<"p">>)
             THEN LET r == PyIntParse(SubSeq(quality_lower, 1, Len(quality_lower) - 1))
                  IN  IF r.ok THEN r.n ELSE 0
             ELSE IF InTable(k_formats, quality_lower)
             THEN Lookup(k_formats, quality_lower, 0)
             ELSE IF IsDigit(quality_lower)
             THEN DigitsValue(quality_lower, 0)
             ELSE Lookup(aliases, quality_lower, 0)

(***************************************************************************)
(* max() / min() with a key: the first extremal element wins               *)
(***************************************************************************)
RECURSIVE MaxScan(_, _, _)
MaxScan(keys, i, best) ==
    IF i > Len(keys) THEN best
    ELSE MaxScan(keys, i + 1, IF keys[i] > keys[best] THEN i ELSE best)

RECURSIVE MinScan(_, _, _)
MinScan(keys, i, best) ==
    IF i > Len(keys) THEN best
    ELSE MinScan(keys, i + 1, IF keys[i] < keys[best] THEN i ELSE best)

RECURSIVE MaxScanLast(_, _, _)
MaxScanLast(keys, i, best) ==
    IF i > Len(keys) THEN best
    ELSE MaxScanLast(keys, i + 1, IF keys[i] >= keys[best] THEN i ELSE best)

\* the last maximal element wins
PyMaxIndex_last(keys) == MaxScanLast(keys, 2, 1)

\* index of the element max(seq, key=...) returns, given the keys
PyMaxIndex(keys) == MaxScan(keys, 2, 1)

RECURSIVE MinScanLast(_, _, _)
MinScanLast(keys, i, best) ==
    IF i > Len(keys) THEN best
    ELSE MinScanLast(keys, i + 1, IF keys[i] <= keys[best] THEN i ELSE best)

\* the last minimal element wins
PyMinIndex_last(keys) == MinScanLast(keys, 2, 1)

\* index of the element min(seq, key=...) returns, given the keys
PyMinIndex(keys) == MinScan(keys, 2, 1)

\* [f(x) for x in seq]
MapSeq(seq, F(_)) == [i \in 1..Len(seq) |-> F(seq[i])]

(***************************************************************************)
(* StreamInfo and the selection reducers                                   *)
(***************************************************************************)
StreamInfo(url, height, bitrate, codec, format_id) ==
    [url |-> url, height |-> height, bitrate |-> bitrate, codec |-> codec,
     format_id |-> format_id]

\* `not codec or codec == 'none'` is false
CodecPresent(codec) == Truthy(codec) /\ codec.s # StrNone

\* exact height matches first (highest bitrate wins), else the closest height
select_video(video_streams, target_height) ==
    LET exact_matches == SelectSeq(video_streams, LAMBDA s : s.height = PyInt(target_height))
    IN  IF exact_matches # <<>>
        THEN exact_matches[PyMaxIndex(MapSeq(exact_matches, LAMBDA s : OrZero(s.bitrate)))]
        ELSE video_streams[PyMinIndex(MapSeq(video_streams,
                               LAMBDA s : Abs(OrZero(s.height) - target_height)))]

\* the highest bitrate instead of the closest one
select_audio_highest(audio_streams, bitrate) ==
    audio_streams[PyMaxIndex(MapSeq(audio_streams, LAMBDA s : OrZero(s.bitrate)))]

\* the closest bitrate
select_audio(audio_streams, bitrate) ==
    audio_streams[PyMinIndex(MapSeq(audio_streams,
                      LAMBDA s : Abs(OrZero(s.bitrate) - bitrate)))]

\* the exception a public operation raises for an exception e caught inside it
Reraise(e, prefix) ==
    IF e.type = "DownloadError" THEN e
    ELSE [Exc("ValueError", prefix \o e.msg) EXCEPT !.codecs = e.codecs]

(***************************************************************************)
(* get_video_streams, after the fetch                                      *)
(***************************************************************************)
video_keep(fmt) ==
    LET vcodec == Get(fmt.vcodec)
        url == GetDefault(fmt.url, PyStr(<<>>))
    IN  /\ CodecPresent(vcodec)
        /\ Truthy(url)
        /\ ~Contains(url.s, StrManifest)

video_stream(fmt) ==
    StreamInfo(GetDefault(fmt.url, PyStr(<<>>)).s, GetDefault(fmt.height, PyInt(0)),
               Get(fmt.tbr), Get(fmt.vcodec).s, fmt.format_id)

\* the loop over info['formats']
video_candidates(formats) == MapSeq(SelectSeq(formats, video_keep), video_stream)

get_video_streams(fetched, quality) ==
    LET prefix == "Error getting video streams: "
    IN  IF fetched.tag = "raise" THEN Raise(Reraise(fetched.exc, prefix))
        ELSE IF fetched.val.formats.k = "missing"
        THEN Raise(Exc("ValueError", prefix \o "No video streams found for the given video ID"))
        ELSE LET target_height == _parse_quality(quality)
                 video_streams == video_candidates(fetched.val.formats.list)
             IN  IF video_streams = <<>>
                 THEN Raise(Exc("ValueError",
                                prefix \o "No video streams available for this video"))
                 ELSE Return(<<select_video(video_streams, target_height)>>)

(***************************************************************************)
(* get_audio_streams, after the fetch                                      *)
(***************************************************************************)
audio_keep(fmt) ==
    LET acodec == Get(fmt.acodec)
        current_bitrate == GetDefault(fmt.tbr, PyInt(0))
        url == GetDefault(fmt.url, PyStr(<<>>))
    IN  /\ CodecPresent(acodec)
        /\ Truthy(current_bitrate) /\ current_bitrate.n > 0
        /\ Truthy(url)

audio_stream(fmt) ==
    StreamInfo(GetDefault(fmt.url, PyStr(<<>>)).s, PyNone,
               GetDefault(fmt.tbr, PyInt(0)), Get(fmt.acodec).s, fmt.format_id)

\* the single-stream codec filter: a lookup table, else plain containment
audio_codec_filter(codec, s) ==
    LET codec_lower == Lower(codec)
        have == Lower(s.codec)
    IN  IF codec_lower \in {StrAac, StrMp4a} THEN Contains(have, StrMp4a)
        ELSE IF codec_lower = StrOpus THEN Contains(have, StrOpus)
        ELSE Contains(have, codec_lower)

\* the loop over info['formats']
audio_candidates(formats) == MapSeq(SelectSeq(formats, audio_keep), audio_stream)

\* the codec argument has no effect
audio_apply_codec_ignored(audio_streams, codec) == audio_streams

\* `if codec:` ... the streams matching the codec when there are some, else
\* all of them
audio_apply_codec(audio_streams, codec) ==
    LET filtered_streams ==
            SelectSeq(audio_streams, LAMBDA s : audio_codec_filter(codec.s, s))
    IN  IF Truthy(codec) /\ filtered_streams # <<>>
        THEN filtered_streams ELSE audio_streams

get_audio_streams(fetched, bitrate, codec) ==
    LET prefix == "Error getting audio streams: "
    IN  IF fetched.tag = "raise" THEN Raise(Reraise(fetched.exc, prefix))
        ELSE IF fetched.val.formats.k = "missing"
        THEN Raise(Exc("ValueError", prefix \o "No audio streams found for the given video ID"))
        ELSE LET all_streams == audio_candidates(fetched.val.formats.list)
             IN  IF all_streams = <<>>
                 THEN Raise(Exc("ValueError",
                                prefix \o "No audio streams available for this video"))
                 ELSE Return(<<select_audio(audio_apply_codec(all_streams, codec),
                                            bitrate)>>)

(***************************************************************************)
(* get_unified_streams: the pre-filter and the two branch workers          *)
(***************************************************************************)
unified_video_keep(fmt) ==
    LET vcodec == Get(fmt.vcodec)
        url == GetDefault(fmt.url, PyStr(<<>>))
    IN  /\ Truthy(url)
        /\ CodecPresent(vcodec)
        /\ ~Contains(url.s, StrManifest)
        /\ Contains(url.s, StrVideoplayback)

\* `fmt.get('tbr', 0) > 0` is evaluated: the descriptor has a URL and an
\* audio codec
unified_audio_tested(fmt) ==
    /\ Truthy(GetDefault(fmt.url, PyStr(<<>>)))
    /\ CodecPresent(Get(fmt.acodec))

unified_audio_keep(fmt) ==
    /\ unified_audio_tested(fmt)
    /\ GetDefault(fmt.tbr, PyInt(0)).n > 0

\* `None > 0` raises TypeError
prefilter_raises(formats, include_audio) ==
    /\ include_audio
    /\ \E i \in 1..Len(formats) :
          unified_audio_tested(formats[i]) /\ GetDefault(formats[i].tbr, PyInt(0)).k = "none"

video_formats_of(formats, include_video) ==
    IF include_video THEN SelectSeq(formats, unified_video_keep) ELSE <<>>

audio_formats_of(formats, include_audio) ==
    IF include_audio THEN SelectSeq(formats, unified_audio_keep) ELSE <<>>

video_codec_match(video_codec, vcodec) ==
    LET codec_lower == Lower(video_codec)
        vcodec_lower == Lower(vcodec)
    IN  \/ Contains(vcodec_lower, codec_lower)
        \/ codec_lower \in {StrH264, StrAvc} /\ Contains(vcodec_lower, StrAvc1)
        \/ codec_lower = StrVp9
             /\ (Contains(vcodec_lower, StrVp9) \/ Contains(vcodec_lower, StrVp09))
        \/ codec_lower \in {StrAv1, StrAv01}
             /\ (Contains(vcodec_lower, StrAv01) \/ Contains(vcodec_lower, StrAv1))

\* the worker's loop over video_formats, with the codec filter
unified_video_candidates(video_formats, video_codec) ==
    LET kept == SelectSeq(video_formats,
                    LAMBDA fmt : Truthy(video_codec) =>
                        video_codec_match(video_codec.s,
                                          GetDefault(fmt.vcodec, PyStr(<<>>)).s))
    IN  MapSeq(kept, LAMBDA fmt :
            StreamInfo(fmt.url.s, GetDefault(fmt.height, PyInt(0)), Get(fmt.tbr),
                       GetDefault(fmt.vcodec, PyStr(<<>>)).s, fmt.format_id))

\* list(set(fmt.get(key, '') for fmt in formats)), key being 'vcodec' or 'acodec'
available_codecs(formats, key) ==
    { GetDefault(formats[i][key], PyStr(<<>>)).s : i \in DOMAIN formats }

\* the video worker selecting among all formats when none matches the codec
process_video_streams_fallback(video_formats, video_quality, video_codec) ==
    IF video_formats = <<>> THEN Raise(Exc("ValueError", "No video formats available"))
    ELSE LET target_height == _parse_quality(video_quality)
             video_streams == unified_video_candidates(video_formats, video_codec)
         IN  Return(<<select_video(IF video_streams = <<>>
                                   THEN unified_video_candidates(video_formats, PyNone)
                                   ELSE video_streams, target_height)>>)

process_video_streams(video_formats, video_quality, video_codec) ==
    IF video_formats = <<>> THEN Raise(Exc("ValueError", "No video formats available"))
    ELSE LET target_height == _parse_quality(video_quality)
             video_streams == unified_video_candidates(video_formats, video_codec)
         IN  IF video_streams = <<>>
             THEN Raise(NoCandidates("No video streams available with codec",
                                     available_codecs(video_formats, "vcodec")))
             ELSE Return(<<select_video(video_streams, target_height)>>)

audio_codec_match(audio_codec, acodec) ==
    LET codec_lower == Lower(audio_codec)
        acodec_lower == Lower(acodec)
    IN  \/ Contains(acodec_lower, codec_lower)
        \/ codec_lower = StrAac /\ Contains(acodec_lower, StrMp4a)
        \/ codec_lower = StrMp4a /\ Contains(acodec_lower, StrMp4a)
        \/ codec_lower = StrOpus /\ Contains(acodec_lower, StrOpus)

\* the worker's loop over audio_formats, with the codec filter
unified_audio_candidates(audio_formats, audio_codec) ==
    LET kept == SelectSeq(audio_formats,
                    LAMBDA fmt : Truthy(audio_codec) =>
                        audio_codec_match(audio_codec.s,
                                          GetDefault(fmt.acodec, PyStr(<<>>)).s))
    IN  MapSeq(kept, LAMBDA fmt :
            StreamInfo(fmt.url.s, PyNone, GetDefault(fmt.tbr, PyInt(0)),
                       GetDefault(fmt.acodec, PyStr(<<>>)).s, fmt.format_id))

process_audio_streams(audio_formats, audio_bitrate, audio_codec) ==
    IF audio_formats = <<>> THEN Raise(Exc("ValueError", "No audio formats available"))
    ELSE LET audio_streams == unified_audio_candidates(audio_formats, audio_codec)
         IN  IF audio_streams = <<>>
             THEN Raise(NoCandidates("No audio streams available with codec",
                                     available_codecs(audio_formats, "acodec")))
             ELSE Return(<<select_audio(audio_streams, audio_bitrate)>>)

(***************************************************************************)
(* Bounds and input domains                                                *)
(***************************************************************************)
\* max_retries is drawn from 0..MaxRetries
MaxRetries == 2

\* the provider returns at most MaxFormats descriptors to an operation
MaxFormats == 1

Threads == {"t1", "t2"}

\* the threads that call the public operations
Callers == {"t1"}

Branches == {"video", "audio"}

UrlPlayback == <<"h","/">> \o StrVideoplayback
UrlManifest == <<"h","/">> \o StrManifest
UrlManifestPlayback == <<"h","/">> \o StrManifest \o <<"/">> \o StrVideoplayback
UrlPlain == <<"h","/","v">>

CodecAvc1 == StrAvc1 \o <<".","4","d">>
CodecVp09 == StrVp09 \o <<".","0">>
CodecMp4a == StrMp4a \o <<".","4","0">>

Quality720p == <<"7","2","0","p">>
Quality1080p == <<"1","0","8","0","p">>

Descriptor(vcodec, acodec, url, height, tbr) ==
    [vcodec |-> vcodec, acodec |-> acodec, url |-> url, height |-> height,
     tbr |-> tbr, format_id |-> 0]

\* the provider numbers the descriptors of a list: format_id is the position
WithIds(l) == [i \in DOMAIN l |-> [l[i] EXCEPT !.format_id = i]]

\* every list of at most n descriptors of D
FormatLists(D, n) == UNION { { WithIds(l) : l \in [1..k -> D] } : k \in 0..n }

NoFormats == [k |-> "missing", list |-> <<>>]
FormatsList(l) == [k |-> "list", list |-> l]

Info(duration, formats) == [duration |-> duration, formats |-> formats]
NoInfo == Info(0, NoFormats)

\* descriptors the provider returns to the operations of Spec
CallDescriptors ==
    { Descriptor(v, a, PyStr(UrlPlayback), PyInt(720), b) :
        v \in {PyStr(StrNone), PyStr(CodecAvc1)},
        a \in {PyStr(StrNone), PyStr(CodecMp4a)},
        b \in {PyNone, PyInt(128)} }

\* the non-empty results of the provider in Spec
CallInfos ==
    { Info(60, FormatsList(l)) : l \in FormatLists(CallDescriptors, MaxFormats) }
        \cup { Info(60, NoFormats) }

NoArgs ==
    [include_video |-> FALSE, include_audio |-> FALSE, video_quality |-> <<>>,
     audio_bitrate |-> 0, video_codec |-> PyNone, audio_codec |-> PyNone]

UnifiedArgs ==
    { [include_video |-> iv, include_audio |-> ia, video_quality |-> Quality720p,
       audio_bitrate |-> 128, video_codec |-> vc, audio_codec |-> PyNone] :
        iv \in BOOLEAN, ia \in BOOLEAN, vc \in {PyNone, PyStr(StrVp9)} }

VideoArgs == { [NoArgs EXCEPT !.video_quality = q] : q \in {Quality720p, Quality1080p} }

AudioArgs ==
    { [NoArgs EXCEPT !.audio_bitrate = 128, !.audio_codec = ac] :
        ac \in {PyNone, PyStr(StrOpus)} }

(***************************************************************************)
(* State                                                                   *)
(***************************************************************************)
VARIABLES
    max_retries,  \* self.max_retries
    local_ydl,    \* self._local.ydl of each thread, NoYdl when the attribute is unset
    pc,           \* where each thread is in its operation
    op,           \* the operation each thread runs
    args,         \* its arguments
    attempt,      \* _get_ytdlp_info: the loop variable (attempts finished)
    last_error,   \* _get_ytdlp_info: last_error
    fetched,      \* outcome of _get_ytdlp_info
    provided,     \* the non-empty result the provider gave in this call
    log,          \* what the call did so far, in order
    futures,      \* get_unified_streams: the branch tasks
    cur,          \* get_unified_streams: the stream_type being awaited
    result,       \* get_unified_streams: the result dict
    pending,      \* get_unified_streams: exception leaving the executor block
    ret,          \* outcome of the operation
    sel_in,       \* input of a filter-and-select function applied on its own
    sel_out       \* its outputs

vars ==
    <<max_retries, local_ydl, pc, op, args, attempt, last_error, fetched,
      provided, log, futures, cur, result, pending, ret, sel_in, sel_out>>

callVars ==
    <<max_retries, local_ydl, pc, op, args, attempt, last_error, fetched,
      provided, log, futures, cur, result, pending, ret>>

selVars == <<sel_in, sel_out>>

\* a provider-client instance: the thread that created it, and whether it was closed
NoYdl == [creator |-> "none", closed |-> FALSE]

\* a branch task: the state of its future, what the worker computed, and how
\* future.result(timeout=20) on it ended ("result", "error" or "timeout")
NoTask == [state |-> "none", outcome |-> NoOutcome, waited |-> "none"]
NoFutures == [b \in Branches |-> NoTask]

NoDict == [duration |-> 0, video |-> NoFormats, audio |-> NoFormats]

\* a text: prefix, a literal of the code, followed by s, the text of an exception
NoText == [k |-> "none", prefix |-> "", s |-> <<>>]
Text(prefix, str) == [k |-> "str", prefix |-> prefix, s |-> str]

\* the dict check_status returns
NoStatus == [available |-> FALSE, status |-> "none", error |-> NoText]
StatusDict(available, status, error) ==
    [available |-> available, status |-> status, error |-> error]

NoRet ==
    [tag |-> "none", val |-> <<>>, dict |-> NoDict, exc |-> NoExc, status |-> NoStatus]
RetList(outcome) ==
    [tag |-> outcome.tag, val |-> outcome.val, dict |-> NoDict, exc |-> outcome.exc,
     status |-> NoStatus]
RetDict(d) ==
    [tag |-> "return", val |-> <<>>, dict |-> d, exc |-> NoExc, status |-> NoStatus]
RetRaise(e) ==
    [tag |-> "raise", val |-> <<>>, dict |-> NoDict, exc |-> e, status |-> NoStatus]
RetStatus(st) ==
    [tag |-> "return", val |-> <<>>, dict |-> NoDict, exc |-> NoExc, status |-> st]

FetchNone == [tag |-> "none", val |-> NoInfo, exc |-> NoExc]
FetchReturn(info) == [tag |-> "return", val |-> info, exc |-> NoExc]
FetchRaise(e) == [tag |-> "raise", val |-> NoInfo, exc |-> e]

NoSelIn ==
    [formats |-> <<>>, quality |-> <<>>, bitrate |-> 0, video_codec |-> PyNone,
     audio_codec |-> PyNone]
NoSelOut == [fn |-> "none", outcome |-> NoOutcome]

InitCalls ==
    /\ local_ydl = [t \in Threads |-> NoYdl]
    /\ pc = [t \in Threads |-> "idle"]
    /\ op = [t \in Threads |-> "none"]
    /\ args = [t \in Threads |-> NoArgs]
    /\ attempt = [t \in Threads |-> 0]
    /\ last_error = [t \in Threads |-> NoExc]
    /\ fetched = [t \in Threads |-> FetchNone]
    /\ provided = [t \in Threads |-> NoInfo]
    /\ log = [t \in Threads |-> <<>>]
    /\ futures = [t \in Threads |-> NoFutures]
    /\ cur = [t \in Threads |-> "none"]
    /\ result = [t \in Threads |-> NoDict]
    /\ pending = [t \in Threads |-> NoExc]
    /\ ret = [t \in Threads |-> NoRet]

Init ==
    /\ max_retries \in 0..MaxRetries
    /\ InitCalls
    /\ sel_in = NoSelIn
    /\ sel_out = NoSelOut

(***************************************************************************)
(* Starting an operation                                                   *)
(***************************************************************************)
\* a thread between operations
CanCall(t) == pc[t] \in {"idle", "done"}

\* the per-call state of thread t at the entry of operation o
Enter(t, o, a, at, r, events) ==
    /\ op' = [op EXCEPT ![t] = o]
    /\ args' = [args EXCEPT ![t] = a]
    /\ pc' = [pc EXCEPT ![t] = at]
    /\ ret' = [ret EXCEPT ![t] = r]
    /\ log' = [log EXCEPT ![t] = events]
    /\ attempt' = [attempt EXCEPT ![t] = 0]
    /\ last_error' = [last_error EXCEPT ![t] = NoExc]
    /\ fetched' = [fetched EXCEPT ![t] = FetchNone]
    /\ provided' = [provided EXCEPT ![t] = NoInfo]
    /\ futures' = [futures EXCEPT ![t] = NoFutures]
    /\ cur' = [cur EXCEPT ![t] = "none"]
    /\ result' = [result EXCEPT ![t] = NoDict]
    /\ pending' = [pending EXCEPT ![t] = NoExc]

\* the argument check left out
RejectsArguments_never(a) == FALSE

\* does get_unified_streams reject its arguments before the try block
RejectsArguments(a) == ~a.include_video /\ ~a.include_audio

CallUnified(t) ==
    /\ CanCall(t)
    /\ \E a \in UnifiedArgs :
          IF RejectsArguments(a)
          THEN Enter(t, "unified", a, "done",
                     RetRaise(Exc("ValueError",
                         "At least one of include_video or include_audio must be True")),
                     <<>>)
          ELSE Enter(t, "unified", a, "fetch", NoRet, <<"fetch_begin">>)
    /\ UNCHANGED <<max_retries, local_ydl, selVars>>

CallVideo(t) ==
    /\ CanCall(t)
    /\ \E a \in VideoArgs : Enter(t, "video", a, "fetch", NoRet, <<"fetch_begin">>)
    /\ UNCHANGED <<max_retries, local_ydl, selVars>>

CallAudio(t) ==
    /\ CanCall(t)
    /\ \E a \in AudioArgs : Enter(t, "audio", a, "fetch", NoRet, <<"fetch_begin">>)
    /\ UNCHANGED <<max_retries, local_ydl, selVars>>

\* cleanup(): close and forget the calling thread's instance, if it has one
Cleanup(t) ==
    /\ CanCall(t)
    /\ Enter(t, "cleanup", NoArgs, "done", RetList(Return(<<>>)),
             IF local_ydl[t] # NoYdl THEN <<"close", "del">> ELSE <<>>)
    /\ local_ydl' = [local_ydl EXCEPT ![t] = NoYdl]
    /\ UNCHANGED <<max_retries, selVars>>

(***************************************************************************)
(* check_status                                                            *)
(***************************************************************************)
StrPrivateVideo == <<"P","r","i","v","a","t","e"," ","v","i","d","e","o">>
StrVideoUnavailable ==
    <<"V","i","d","e","o"," ","u","n","a","v","a","i","l","a","b","l","e">>
StrAgeRestricted == <<"a","g","e","-","r","e","s","t","r","i","c","t","e","d">>
StrRemoved == <<"r","e","m","o","v","e","d">>

\* status_map.items(), in insertion order
status_map ==
    << <<StrPrivateVideo, "private">>, <<StrVideoUnavailable, "unavailable">>,
       <<StrAgeRestricted, "age_restricted">>, <<StrRemoved, "removed">> >>

\* the last entry of the table contained in the message wins
classify_last(error_msg) ==
    LET hits == {i \in DOMAIN status_map : Contains(error_msg, status_map[i][1])}
    IN  IF hits = {} THEN "error"
        ELSE status_map[CHOOSE i \in hits : \A j \in hits : j <= i][2]

\* next((v for k, v in status_map.items() if k in error_msg), "error")
classify(error_msg) ==
    LET hits == {i \in DOMAIN status_map : Contains(error_msg, status_map[i][1])}
    IN  IF hits = {} THEN "error"
        ELSE status_map[CHOOSE i \in hits : \A j \in hits : i <= j][2]

\* the outcomes of the one provider call of check_status
StatusKinds == {"info", "empty", "download_error", "other_error"}

\* an exception other than DownloadError leaves check_status
check_status_reraising(kind, msg) ==
    IF kind = "info" THEN RetStatus(StatusDict(TRUE, "available", NoText))
    ELSE IF kind = "empty"
    THEN RetStatus(StatusDict(FALSE, "unavailable",
                              Text("Video information not available", <<>>)))
    ELSE IF kind = "download_error"
    THEN RetStatus(StatusDict(FALSE, classify(msg), Text("", msg)))
    ELSE RetRaise(Exc("OtherError", "provider failure"))

\* what check_status returns for the outcome of its provider call; msg is
\* str(e) of the exception raised, if any
check_status(kind, msg) ==
    IF kind = "info" THEN RetStatus(StatusDict(TRUE, "available", NoText))
    ELSE IF kind = "empty"
    THEN RetStatus(StatusDict(FALSE, "unavailable",
                              Text("Video information not available", <<>>)))
    ELSE IF kind = "download_error"
    THEN RetStatus(StatusDict(FALSE, classify(msg), Text("", msg)))
    ELSE RetStatus(StatusDict(FALSE, "error", Text("Unexpected error: ", msg)))

\* an error message of the provider is made of at most MaxFragments fragments
MaxFragments == 2

StrSignIn == <<"S","i","g","n"," ","i","n">>

\* the keys of the table, two of them in another case, and a text of no table
Fragments ==
    { StrPrivateVideo, StrVideoUnavailable, StrAgeRestricted, StrRemoved,
      Lower(StrPrivateVideo), <<"R","e","m","o","v","e","d">>, StrSignIn }

RECURSIVE Join(_)
\* the fragments, each followed by a full stop
Join(fs) == IF fs = <<>> THEN <<>> ELSE Head(fs) \o <<".">> \o Join(Tail(fs))

\* every message of at most n fragments
Messages(n) == { Join(fs) : fs \in UNION { [1..k -> Fragments] : k \in 0..n } }

\* the messages of the exceptions the provider raises in Spec
CallMessages == { Join(<<StrRemoved, StrPrivateVideo>>), Join(<<StrSignIn>>) }

\* check_status: a new instance for this call only, one extract_info, the
\* instance closed when the `with` block is left, the result classified;
\* msgs are the messages of the exceptions the provider may raise
CallStatus(t, msgs) ==
    /\ CanCall(t)
    /\ \E kind \in StatusKinds :
          \E msg \in (IF kind \in {"download_error", "other_error"}
                       THEN msgs ELSE {<<>>}) :
              Enter(t, "status", NoArgs, "done", check_status(kind, msg),
                    <<"status_create", "status_extract", "status_" \o kind,
                      "status_close">>)
    /\ UNCHANGED <<max_retries, local_ydl, selVars>>

(***************************************************************************)
(* _get_ytdlp_info: one action per outcome of a provider attempt           *)
(***************************************************************************)
\* one attempt too many
HasAttempt_inclusive(t) == attempt[t] <= max_retries

\* `for attempt in range(self.max_retries)` has another iteration
HasAttempt(t) == attempt[t] < max_retries

\* a sleep after every failed attempt, the last one included
SleepsAfter_always(t) == TRUE

\* `if attempt < self.max_retries - 1`: sleep before the next attempt
SleepsAfter(t) == attempt[t] < max_retries - 1

\* `raise last_error`: raising None is a TypeError
RaiseLast(e) ==
    IF e = NoExc THEN Exc("TypeError", "exceptions must derive from BaseException")
    ELSE e

\* one instance attribute shared by the threads instead of a thread-local one
Extract_shared(t, kind, closes) ==
    LET holders == {u \in Threads : local_ydl[u] # NoYdl}
        fresh == holders = {}
        inst == IF fresh THEN [creator |-> t, closed |-> FALSE]
                ELSE local_ydl[CHOOSE u \in holders : TRUE]
    IN  /\ pc[t] = "fetch"
        /\ HasAttempt(t)
        /\ local_ydl' = [local_ydl EXCEPT ![t] = [inst EXCEPT !.closed = @ \/ closes]]
        /\ log' = [log EXCEPT ![t] =
                     @ \o (IF fresh THEN <<"create">> ELSE <<>>)
                       \o <<IF inst.closed THEN "extract_closed" ELSE "extract", kind>>
                       \o (IF closes THEN <<"close">> ELSE <<>>)
                       \o (IF kind \in {"info", "other_error"}
                           THEN <<"fetch_end">> ELSE <<>>)]

\* _get_ytdlp_instance and ydl.extract_info: the instance used (created when
\* the thread has none), closed afterwards when the handler closes it
Extract(t, kind, closes) ==
    LET fresh == local_ydl[t] = NoYdl
        inst == IF fresh THEN [creator |-> t, closed |-> FALSE] ELSE local_ydl[t]
    IN  /\ pc[t] = "fetch"
        /\ HasAttempt(t)
        /\ local_ydl' = [local_ydl EXCEPT ![t] = [inst EXCEPT !.closed = @ \/ closes]]
        /\ log' = [log EXCEPT ![t] =
                     @ \o (IF fresh THEN <<"create">> ELSE <<>>)
                       \o <<IF inst.closed THEN "extract_closed" ELSE "extract", kind>>
                       \o (IF closes THEN <<"close">> ELSE <<>>)
                       \o (IF kind \in {"info", "other_error"}
                           THEN <<"fetch_end">> ELSE <<>>)]

\* a non-empty result: returned at once
AttemptInfo(t, infos) ==
    /\ Extract(t, "info", FALSE)
    /\ \E info \in infos :
          /\ fetched' = [fetched EXCEPT ![t] = FetchReturn(info)]
          /\ provided' = [provided EXCEPT ![t] = info]
    /\ pc' = [pc EXCEPT ![t] = "fetched"]
    /\ UNCHANGED <<max_retries, op, args, attempt, last_error, futures, cur, result,
                   pending, ret, selVars>>

\* an empty result without an exception: the loop goes on to the next attempt
AttemptEmpty(t) ==
    /\ Extract(t, "empty", FALSE)
    /\ attempt' = [attempt EXCEPT ![t] = @ + 1]
    /\ UNCHANGED <<max_retries, pc, op, args, last_error, fetched, provided, futures,
                   cur, result, pending, ret, selVars>>

\* yt_dlp.utils.DownloadError: remembered, instance closed, retried
AttemptDownloadError(t) ==
    /\ Extract(t, "download_error", TRUE)
    /\ last_error' = [last_error EXCEPT ![t] = DownloadError(attempt[t] + 1)]
    /\ IF SleepsAfter(t)
       THEN /\ pc' = [pc EXCEPT ![t] = "sleep"]
            /\ UNCHANGED attempt
       ELSE /\ attempt' = [attempt EXCEPT ![t] = @ + 1]
            /\ UNCHANGED pc
    /\ UNCHANGED <<max_retries, op, args, fetched, provided, futures, cur, result,
                   pending, ret, selVars>>

\* time.sleep(self.retry_delay), then `continue`
Sleep(t) ==
    /\ pc[t] = "sleep"
    /\ pc' = [pc EXCEPT ![t] = "fetch"]
    /\ attempt' = [attempt EXCEPT ![t] = @ + 1]
    /\ log' = [log EXCEPT ![t] = Append(@, "sleep")]
    /\ UNCHANGED <<max_retries, local_ydl, op, args, last_error, fetched,
                   provided, futures, cur, result, pending, ret, selVars>>

\* any other exception retried like a DownloadError
AttemptOtherError_retried(t) ==
    /\ Extract(t, "other_error", TRUE)
    /\ attempt' = [attempt EXCEPT ![t] = @ + 1]
    /\ UNCHANGED <<max_retries, pc, op, args, last_error, fetched, provided, futures,
                   cur, result, pending, ret, selVars>>

\* any other exception: instance closed, re-raised
AttemptOtherError(t) ==
    /\ Extract(t, "other_error", TRUE)
    /\ fetched' = [fetched EXCEPT ![t] = FetchRaise(Exc("OtherError", "provider failure"))]
    /\ pc' = [pc EXCEPT ![t] = "fetched"]
    /\ UNCHANGED <<max_retries, op, args, attempt, last_error, provided, futures, cur,
                   result, pending, ret, selVars>>

\* the loop is over without a return: `raise last_error`
Exhausted(t) ==
    /\ pc[t] = "fetch"
    /\ ~HasAttempt(t)
    /\ fetched' = [fetched EXCEPT ![t] = FetchRaise(RaiseLast(last_error[t]))]
    /\ pc' = [pc EXCEPT ![t] = "fetched"]
    /\ log' = [log EXCEPT ![t] = Append(@, "fetch_end")]
    /\ UNCHANGED <<max_retries, local_ydl, op, args, attempt, last_error,
                   provided, futures, cur, result, pending, ret, selVars>>

(***************************************************************************)
(* get_video_streams / get_audio_streams after the fetch                   *)
(***************************************************************************)
Finish(t, r) ==
    /\ ret' = [ret EXCEPT ![t] = r]
    /\ pc' = [pc EXCEPT ![t] = "done"]

VideoFinish(t) ==
    /\ pc[t] = "fetched"
    /\ op[t] = "video"
    /\ Finish(t, RetList(get_video_streams(fetched[t], args[t].video_quality)))
    /\ UNCHANGED <<max_retries, local_ydl, op, args, attempt, last_error,
                   fetched, provided, log, futures, cur, result, pending, selVars>>

AudioFinish(t) ==
    /\ pc[t] = "fetched"
    /\ op[t] = "audio"
    /\ Finish(t, RetList(get_audio_streams(fetched[t], args[t].audio_bitrate,
                                           args[t].audio_codec)))
    /\ UNCHANGED <<max_retries, local_ydl, op, args, attempt, last_error,
                   fetched, provided, log, futures, cur, result, pending, selVars>>

(***************************************************************************)
(* get_unified_streams after the fetch                                     *)
(***************************************************************************)
UnifiedPrefix == "Error getting unified streams: "

\* info.get('formats', [])
FormatsOf(info) == IF info.formats.k = "missing" THEN <<>> ELSE info.formats.list

\* the stream types of `futures`, in insertion order
Requested(a) ==
    (IF a.include_video THEN <<"video">> ELSE <<>>)
        \o (IF a.include_audio THEN <<"audio">> ELSE <<>>)

\* a branch failure always fails the call
Fatal_always(b, a) == TRUE

\* a branch failure never fails the call
Fatal_never(b, a) == FALSE

\* a failure of branch b fails the whole call: the other branch was not requested
Fatal(b, a) ==
    \/ b = "video" /\ ~a.include_audio
    \/ b = "audio" /\ ~a.include_video

\* the final validation left out
BothEmpty_never(a, d) == FALSE

\* `if not result.get('video') and not result.get('audio')` under both requested
BothEmpty(a, d) ==
    /\ a.include_video /\ a.include_audio
    /\ d.video.list = <<>>
    /\ d.audio.list = <<>>

\* the tasks are submitted whatever the fetch gave
UnifiedPrepare_unchecked(t) ==
    /\ pc[t] = "fetched"
    /\ op[t] = "unified"
    /\ result' = [result EXCEPT ![t] = [NoDict EXCEPT !.duration = fetched[t].val.duration]]
    /\ pc' = [pc EXCEPT ![t] = "submit"]
    /\ UNCHANGED <<max_retries, local_ydl, op, args, attempt, last_error,
                   fetched, provided, log, futures, cur, pending, ret, selVars>>

\* from the fetch to the executor: the outer handler, the formats check and the
\* pre-filter
UnifiedPrepare(t) ==
    /\ pc[t] = "fetched"
    /\ op[t] = "unified"
    /\ IF fetched[t].tag = "raise"
       THEN /\ Finish(t, RetRaise(Reraise(fetched[t].exc, UnifiedPrefix)))
            /\ UNCHANGED result
       ELSE IF FormatsOf(fetched[t].val) = <<>>
       THEN /\ Finish(t, RetRaise(Exc("ValueError",
                            UnifiedPrefix \o "No formats available for this video")))
            /\ UNCHANGED result
       ELSE IF prefilter_raises(FormatsOf(fetched[t].val), args[t].include_audio)
       THEN /\ Finish(t, RetRaise(Exc("ValueError",
                            UnifiedPrefix \o "'>' not supported between NoneType and int")))
            /\ UNCHANGED result
       ELSE /\ result' = [result EXCEPT ![t] = [NoDict EXCEPT !.duration = fetched[t].val.duration]]
            /\ pc' = [pc EXCEPT ![t] = "submit"]
            /\ UNCHANGED ret
    /\ UNCHANGED <<max_retries, local_ydl, op, args, attempt, last_error,
                   fetched, provided, log, futures, cur, pending, selVars>>

\* the next stream type to submit: the first requested one not yet submitted
ToSubmit(t) ==
    LET r == Requested(args[t])
        waiting == {i \in 1..Len(r) : futures[t][r[i]].state = "none"}
    IN  IF waiting = {} THEN "none"
        ELSE r[CHOOSE i \in waiting : \A j \in waiting : i <= j]

\* executor.submit(process_video_streams) / executor.submit(process_audio_streams)
Submit(t) ==
    /\ pc[t] = "submit"
    /\ LET b == ToSubmit(t)
       IN  /\ b # "none"
           /\ futures' = [futures EXCEPT ![t][b].state = "queued"]
           /\ log' = [log EXCEPT ![t] = Append(@, "submit_" \o b)]
           /\ IF b = Requested(args[t])[Len(Requested(args[t]))]
              THEN /\ pc' = [pc EXCEPT ![t] = "wait"]
                   /\ cur' = [cur EXCEPT ![t] = Requested(args[t])[1]]
              ELSE UNCHANGED <<pc, cur>>
    /\ UNCHANGED <<max_retries, local_ydl, op, args, attempt, last_error,
                   fetched, provided, result, pending, ret, selVars>>

\* a pool worker takes the task
TaskStart(t, b) ==
    /\ futures[t][b].state = "queued"
    /\ futures' = [futures EXCEPT ![t][b].state = "running"]
    /\ UNCHANGED <<max_retries, local_ydl, pc, op, args, attempt, last_error,
                   fetched, provided, log, cur, result, pending, ret, selVars>>

\* what the worker of branch b computes from the shared, pre-filtered formats
BranchOutcome(b, info, a) ==
    IF b = "video"
    THEN process_video_streams(video_formats_of(FormatsOf(info), a.include_video),
                               a.video_quality, a.video_codec)
    ELSE process_audio_streams(audio_formats_of(FormatsOf(info), a.include_audio),
                               a.audio_bitrate, a.audio_codec)

\* the worker returns or raises
TaskFinish(t, b) ==
    /\ futures[t][b].state = "running"
    /\ futures' = [futures EXCEPT ![t][b] =
                      [@ EXCEPT !.state = "finished",
                                !.outcome = BranchOutcome(b, fetched[t].val, args[t])]]
    /\ UNCHANGED <<max_retries, local_ydl, pc, op, args, attempt, last_error,
                   fetched, provided, log, cur, result, pending, ret, selVars>>

\* the end of one iteration of `for stream_type, future in futures.items()`
Advance(t, b) ==
    LET r == Requested(args[t])
    IN  IF b = r[Len(r)]
        THEN /\ pc' = [pc EXCEPT ![t] = "shutdown"]
             /\ cur' = [cur EXCEPT ![t] = "none"]
        ELSE /\ cur' = [cur EXCEPT ![t] = r[Len(r)]]
             /\ UNCHANGED pc

\* result[stream_type] = streams
Record(t, b, streams) ==
    result' = [result EXCEPT ![t] =
                  IF b = "video" THEN [@ EXCEPT !.video = FormatsList(streams)]
                  ELSE [@ EXCEPT !.audio = FormatsList(streams)]]

\* an exception leaves the loop and the executor block
Abort(t, e) ==
    /\ pending' = [pending EXCEPT ![t] = e]
    /\ pc' = [pc EXCEPT ![t] = "shutdown"]
    /\ cur' = [cur EXCEPT ![t] = "none"]
    /\ UNCHANGED result

\* future.result(timeout=20) of a finished task: its value or its exception
WaitResult(t) ==
    /\ pc[t] = "wait"
    /\ LET b == cur[t]
           f == futures[t][b]
       IN  /\ f.state = "finished"
           /\ futures' = [futures EXCEPT ![t][b].waited =
                             IF f.outcome.tag = "return" THEN "result" ELSE "error"]
           /\ IF f.outcome.tag = "return"
              THEN Record(t, b, f.outcome.val) /\ Advance(t, b) /\ UNCHANGED pending
              ELSE IF Fatal(b, args[t])
              THEN Abort(t, f.outcome.exc)
              ELSE Record(t, b, <<>>) /\ Advance(t, b) /\ UNCHANGED pending
    /\ UNCHANGED <<max_retries, local_ydl, op, args, attempt, last_error,
                   fetched, provided, log, ret, selVars>>

\* future.result(timeout=20) of a task that is not finished in time:
\* concurrent.futures.TimeoutError, then future.cancel()
WaitTimeout(t) ==
    /\ pc[t] = "wait"
    /\ LET b == cur[t]
           f == futures[t][b]
       IN  /\ f.state \in {"queued", "running"}
           /\ futures' = [futures EXCEPT ![t][b] =
                             [@ EXCEPT !.state = IF @ = "queued" THEN "cancelled" ELSE @,
                                       !.waited = "timeout"]]
           /\ IF Fatal(b, args[t])
              THEN Abort(t, Exc("ValueError", b \o " stream processing timed out"))
              ELSE Record(t, b, <<>>) /\ Advance(t, b) /\ UNCHANGED pending
    /\ UNCHANGED <<max_retries, local_ydl, op, args, attempt, last_error,
                   fetched, provided, log, ret, selVars>>

\* leaving the `with` block joins the workers (shutdown(wait=True)); then the
\* result is validated, or the pending exception reaches the outer handler
Shutdown(t) ==
    /\ pc[t] = "shutdown"
    /\ \A b \in Branches : futures[t][b].state \notin {"queued", "running"}
    /\ Finish(t, IF pending[t] # NoExc
                 THEN RetRaise(Reraise(pending[t], UnifiedPrefix))
                 ELSE IF BothEmpty(args[t], result[t])
                 THEN RetRaise(Exc("ValueError",
                          UnifiedPrefix \o "Failed to get both video and audio streams"))
                 ELSE RetDict(result[t]))
    /\ UNCHANGED <<max_retries, local_ydl, op, args, attempt, last_error,
                   fetched, provided, log, futures, cur, result, pending, selVars>>

(***************************************************************************)
(* The operations of one extractor                                         *)
(***************************************************************************)
Next ==
    \E t \in Callers :
        \/ CallUnified(t)
        \/ CallVideo(t)
        \/ CallAudio(t)
        \/ Cleanup(t)
        \/ CallStatus(t, CallMessages)
        \/ AttemptInfo(t, CallInfos)
        \/ AttemptEmpty(t)
        \/ AttemptDownloadError(t)
        \/ Sleep(t)
        \/ AttemptOtherError(t)
        \/ Exhausted(t)
        \/ VideoFinish(t)
        \/ AudioFinish(t)
        \/ UnifiedPrepare(t)
        \/ Submit(t)
        \/ \E b \in Branches : TaskStart(t, b)
        \/ \E b \in Branches : TaskFinish(t, b)
        \/ WaitResult(t)
        \/ WaitTimeout(t)
        \/ Shutdown(t)

Spec == Init /\ [][Next]_vars

\* The caller's thread keeps running: future.result(timeout=20) ends within
\* its timeout and the `with` block is left once the executor has shut down.
\* Nothing makes a branch task finish.
LiveSpec ==
    /\ Spec
    /\ \A t \in Callers :
          /\ WF_vars(WaitResult(t) \/ WaitTimeout(t))
          /\ WF_vars(Shutdown(t))

(***************************************************************************)
(* The filter-and-select functions on their own: every format list of a    *)
(* bounded domain is given to each of them                                 *)
(***************************************************************************)
\* the default of max_retries
DefaultMaxRetries == 3

\* the format lists given to the selection functions hold at most MaxLen descriptors
MaxLen == 2

\* video descriptors that differ in codec, height and bitrate
VideoDescriptors ==
    { Descriptor(PyStr(v), PyStr(StrNone), PyStr(UrlPlayback), h, b) :
        v \in {CodecAvc1, CodecVp09},
        h \in {Missing, PyNone, PyInt(720), PyInt(1080)},
        b \in {PyNone, PyInt(1000), PyInt(2000)} }

\* descriptors that differ in what streams they carry and in their URL
UrlDescriptors ==
    { Descriptor(v, a, u, PyInt(720), PyInt(128)) :
        v \in {PyStr(StrNone), PyStr(CodecAvc1)},
        a \in {PyStr(StrNone), PyStr(CodecMp4a)},
        u \in {Missing, PyNone, PyStr(<<>>), PyStr(UrlManifest), PyStr(UrlPlayback),
               PyStr(UrlManifestPlayback), PyStr(UrlPlain)} }

\* video descriptors that differ in height only
HeightDescriptors ==
    { Descriptor(PyStr(CodecAvc1), PyStr(StrNone), PyStr(UrlPlayback), h, PyInt(1000)) :
        h \in {Missing, PyNone, PyInt(360), PyInt(720), PyInt(1080)} }

\* audio descriptors that differ in codec and bitrate
AudioDescriptors ==
    { Descriptor(PyStr(StrNone), PyStr(a), PyStr(UrlPlayback), Missing, PyInt(b)) :
        a \in {CodecMp4a, StrOpus, StrAac}, b \in {64, 128, 192} }

\* quality tokens: two heights, a token no table knows, a signed height
QualityBest == <<"b","e","s","t">>
QualityMinus720p == <<"-">> \o Quality720p

\* codec arguments of the audio paths: none, an alias, another case, no match
AudioCodecs ==
    { PyNone, PyStr(StrAac), PyStr(<<"O","P","U","S">>), PyStr(<<"f","l","a","c">>) }

SelInput(formats, quality, video_codec) ==
    [formats |-> formats, quality |-> quality, bitrate |-> 128,
     video_codec |-> video_codec, audio_codec |-> PyNone]

SelInit ==
    /\ max_retries = DefaultMaxRetries
    /\ InitCalls
    /\ sel_out = NoSelOut
    /\ \E k \in 0..MaxLen :
          \/ \E l \in [1..k -> VideoDescriptors] :
                \E q \in {Quality720p, Quality1080p}, vc \in {PyNone, PyStr(StrH264)} :
                    sel_in = SelInput(WithIds(l), q, vc)
          \/ \E l \in [1..k -> UrlDescriptors] :
                sel_in = SelInput(WithIds(l), Quality720p, PyNone)
          \/ \E l \in [1..k -> HeightDescriptors] :
                \E q \in {Quality720p, Quality1080p, QualityBest, QualityMinus720p} :
                    sel_in = SelInput(WithIds(l), q, PyNone)
          \/ \E l \in [1..k -> AudioDescriptors] :
                \E ac \in AudioCodecs :
                    sel_in = [SelInput(WithIds(l), Quality720p, PyNone)
                                  EXCEPT !.audio_codec = ac]

Apply(fn, outcome) ==
    /\ sel_out = NoSelOut
    /\ sel_out' = [fn |-> fn, outcome |-> outcome]
    /\ UNCHANGED <<callVars, sel_in>>

\* get_video_streams on a fetch that returned the formats
ApplyGetVideoStreams ==
    Apply("get_video_streams",
          get_video_streams(FetchReturn(Info(0, FormatsList(sel_in.formats))),
                            sel_in.quality))

\* get_audio_streams on a fetch that returned the formats
ApplyGetAudioStreams ==
    Apply("get_audio_streams",
          get_audio_streams(FetchReturn(Info(0, FormatsList(sel_in.formats))),
                            sel_in.bitrate, sel_in.audio_codec))

\* the video worker of get_unified_streams on the pre-filtered formats
ApplyVideoBranch ==
    /\ sel_in.formats # <<>>
    /\ Apply("process_video_streams",
             process_video_streams(video_formats_of(sel_in.formats, TRUE),
                                   sel_in.quality, sel_in.video_codec))

\* the audio worker of get_unified_streams on the pre-filtered formats; there
\* is no worker when the pre-filter raised
ApplyAudioBranch ==
    /\ sel_in.formats # <<>>
    /\ ~prefilter_raises(sel_in.formats, TRUE)
    /\ Apply("process_audio_streams",
             process_audio_streams(audio_formats_of(sel_in.formats, TRUE),
                                   sel_in.bitrate, sel_in.audio_codec))

SelNext ==
    \/ ApplyGetVideoStreams
    \/ ApplyGetAudioStreams
    \/ ApplyVideoBranch
    \/ ApplyAudioBranch

SelSpec == SelInit /\ [][SelNext]_vars

(***************************************************************************)
(* _parse_quality on its own: every short token over a small alphabet, and *)
(* the tokens of the tables in either case with spaces around them         *)
(***************************************************************************)
\* the free-form tokens have at most MaxTokenLen characters
MaxTokenLen == 3

\* at most MaxPad spaces are put on each side of a table token
MaxPad == 1

TokenChars == {"1", "2", "p", "P", "k", "K", "-", "+", " ", "h", "d", "D"}

\* str.upper(), one character
UpperChar(c) ==
    IF \E i \in DOMAIN LowerChars : LowerChars[i] = c
    THEN UpperChars[CHOOSE i \in DOMAIN LowerChars : LowerChars[i] = c]
    ELSE c

\* str.upper()
Upper(s) == [i \in 1..Len(s) |-> UpperChar(s[i])]

\* ' ' * n
Pad(n) == [i \in 1..n |-> " "]

\* the keys of both tables, some heights, and tokens no table knows
TableTokens ==
    { e[1] : e \in k_formats \cup aliases }
        \cup { Quality720p, Quality1080p, QualityMinus720p, QualityBest,
               <<"4","8","0">>, <<"0","7","2","0">>, <<"3","k">>, <<"h","d","r">>,
               <<"f","u","l","l"," "," ","h","d">> }

ParseInit ==
    /\ max_retries = DefaultMaxRetries
    /\ InitCalls
    /\ sel_out = NoSelOut
    /\ \/ \E n \in 0..MaxTokenLen : \E tok \in [1..n -> TokenChars] :
              sel_in = SelInput(<<>>, tok, PyNone)
       \/ \E base \in TableTokens, l \in 0..MaxPad, r \in 0..MaxPad, up \in BOOLEAN :
              sel_in = SelInput(<<>>,
                                Pad(l) \o (IF up THEN Upper(base) ELSE base) \o Pad(r),
                                PyNone)

\* self._parse_quality(quality)
ApplyParseQuality ==
    Apply("_parse_quality", Return(<<PyInt(_parse_quality(sel_in.quality))>>))

ParseNext == ApplyParseQuality

ParseSpec == ParseInit /\ [][ParseNext]_vars

(***************************************************************************)
(* check_status on its own: every message of a few fragments               *)
(***************************************************************************)
StatusInit ==
    /\ max_retries = DefaultMaxRetries
    /\ InitCalls
    /\ sel_in = NoSelIn
    /\ sel_out = NoSelOut

StatusNext == \E t \in Callers : CallStatus(t, Messages(MaxFragments))

StatusSpec == StatusInit /\ [][StatusNext]_vars

(***************************************************************************)
(* Several threads on one extractor: fetches through get_video_streams and *)
(* cleanup calls, interleaved                                              *)
(***************************************************************************)
\* the one result the provider gives in ThreadSpec
ThreadInfos == { Info(60, NoFormats) }

ThreadNext ==
    \E t \in Threads :
        \/ CallVideo(t)
        \/ Cleanup(t)
        \/ AttemptInfo(t, ThreadInfos)
        \/ AttemptEmpty(t)
        \/ AttemptDownloadError(t)
        \/ Sleep(t)
        \/ AttemptOtherError(t)
        \/ Exhausted(t)
        \/ VideoFinish(t)

ThreadSpec == Init /\ [][ThreadNext]_vars

(***************************************************************************)
(* Properties                                                              *)
(***************************************************************************)
Count(seq, e) == Cardinality({i \in DOMAIN seq : seq[i] = e})

\* the events of a provider attempt and of the retry sleep
FetchEvents == {"create", "extract", "extract_closed", "info", "empty",
                "download_error", "other_error", "close", "sleep"}

ProviderCalls(t) == Count(log[t], "extract") + Count(log[t], "extract_closed")

Other(b) == IF b = "video" THEN "audio" ELSE "video"

UnifiedDone(t) == pc[t] = "done" /\ op[t] = "unified"

WaitFailed(t, b) == futures[t][b].waited \in {"error", "timeout"}

\* C1: get_unified_streams with include_video = false and include_audio = false
\* has failed with the invalid-argument ValueError without any provider call,
\* instance creation or task submission.
C1_RejectedBeforeFetch ==
    \A t \in Threads :
        (op[t] = "unified" /\ ~args[t].include_video /\ ~args[t].include_audio) =>
            /\ pc[t] = "done"
            /\ ret[t] = RetRaise(Exc("ValueError",
                   "At least one of include_video or include_audio must be True"))
            /\ log[t] = <<>>
            /\ ProviderCalls(t) = 0
            /\ fetched[t] = FetchNone
            /\ futures[t] = NoFutures

C1_Witness ==
    \E t \in Threads :
        /\ op[t] = "unified" /\ ~args[t].include_video /\ ~args[t].include_audio
        /\ pc[t] = "done"
        /\ ret[t].tag = "raise"

\* C2: with both branches requested, when one branch failed (raised or timed
\* out) and the other delivered its result, the call returns a result whose
\* failed branch is [] and whose other branch is exactly the one StreamInfo its
\* worker selected.
C2_PartialSuccess ==
    \A t \in Threads : \A b \in Branches :
        ( /\ UnifiedDone(t)
          /\ args[t].include_video /\ args[t].include_audio
          /\ futures[t][b].waited = "result"
          /\ WaitFailed(t, Other(b)) ) =>
            /\ ret[t].tag = "return"
            /\ ret[t].dict[Other(b)] = FormatsList(<<>>)
            /\ ret[t].dict[b] = FormatsList(futures[t][b].outcome.val)
            /\ Len(ret[t].dict[b].list) = 1
            /\ ret[t].dict.duration = fetched[t].val.duration

C2_Witness ==
    \E t \in Threads :
        /\ UnifiedDone(t)
        /\ args[t].include_video /\ args[t].include_audio
        /\ futures[t]["video"].waited = "result"
        /\ futures[t]["audio"].waited = "timeout"
        /\ ret[t].tag = "return"

\* C3: with both branches requested, when both branches failed the call raises,
\* and no returned result has both video and audio empty.
C3_TotalFailure ==
    \A t \in Threads :
        (UnifiedDone(t) /\ args[t].include_video /\ args[t].include_audio) =>
            /\ (WaitFailed(t, "video") /\ WaitFailed(t, "audio")) =>
                   /\ ret[t].tag = "raise"
                   /\ ret[t].exc.type = "ValueError"
            /\ ret[t].tag = "return" =>
                   ~(ret[t].dict.video.list = <<>> /\ ret[t].dict.audio.list = <<>>)

C3_Witness ==
    \E t \in Threads :
        /\ UnifiedDone(t)
        /\ args[t].include_video /\ args[t].include_audio
        /\ futures[t]["video"].waited = "error"
        /\ futures[t]["audio"].waited = "timeout"
        /\ ret[t].tag = "raise"

\* C4: with exactly one branch requested, a failure of that branch (error or
\* timeout) makes the call raise; a returned result holds a non-empty list for
\* the requested branch and no key for the other one.
C4_SingleBranchFatal ==
    \A t \in Threads : \A b \in Branches :
        ( /\ UnifiedDone(t)
          /\ args[t].include_video = (b = "video")
          /\ args[t].include_audio = (b = "audio") ) =>
            /\ WaitFailed(t, b) => ret[t].tag = "raise"
            /\ ret[t].tag = "return" =>
                   /\ ret[t].dict[b].k = "list"
                   /\ ret[t].dict[b].list # <<>>
                   /\ ret[t].dict[Other(b)].k = "missing"

C4_Witness ==
    \E t \in Threads :
        /\ UnifiedDone(t)
        /\ args[t].include_video /\ ~args[t].include_audio
        /\ futures[t]["video"].waited = "timeout"
        /\ ret[t].tag = "raise"

\* C5: a get_unified_streams call enters _get_ytdlp_info once; every task
\* submission comes after the end of the fetch and after every provider
\* attempt; a branch task exists only when the fetch returned a result.
C5_FetchBeforeBranches ==
    \A t \in Threads :
        op[t] = "unified" =>
            /\ Count(log[t], "fetch_begin") <= 1
            /\ (\E b \in Branches : futures[t][b].state # "none") =>
                   /\ fetched[t].tag = "return"
                   /\ Count(log[t], "fetch_begin") = 1
                   /\ Count(log[t], "fetch_end") = 1
            /\ \A i, j \in DOMAIN log[t] :
                   ( /\ log[t][i] \in {"submit_video", "submit_audio"}
                     /\ log[t][j] \in FetchEvents \cup {"fetch_begin", "fetch_end"} ) => j < i
            /\ fetched[t].tag = "raise" => futures[t] = NoFutures

C5_Witness ==
    \E t \in Threads :
        /\ op[t] = "unified"
        /\ futures[t]["video"].state = "finished"
        /\ futures[t]["audio"].state = "running"
        /\ ProviderCalls(t) = 2

\* C6: when _get_ytdlp_info ends without a result and without a non-download
\* exception, it raises the last DownloadError it caught.
C6_ExhaustionRaisesLastDownloadError ==
    \A t \in Threads :
        (fetched[t].tag = "raise" /\ Count(log[t], "other_error") = 0) =>
            /\ fetched[t].exc.type = "DownloadError"
            /\ fetched[t].exc = last_error[t]

\* C7: one _get_ytdlp_info call makes at most max_retries provider attempts, a
\* non-empty result ends it at once, and the value returned is that result.
C7_BoundedAttemptsFirstResult ==
    \A t \in Threads :
        /\ ProviderCalls(t) <= max_retries
        /\ Count(log[t], "info") <= 1
        /\ \A i, j \in DOMAIN log[t] :
               (log[t][i] = "info" /\ i < j) => log[t][j] \notin FetchEvents
        /\ fetched[t].tag = "return" <=> Count(log[t], "info") = 1
        /\ fetched[t].tag = "return" => fetched[t].val = provided[t]

C7_Witness ==
    \E t \in Threads :
        /\ fetched[t].tag = "return"
        /\ max_retries >= 2
        /\ ProviderCalls(t) = max_retries

\* C8: an exception other than DownloadError raised by a provider attempt ends
\* _get_ytdlp_info at once with that exception: nothing but the closing of the
\* instance follows it, no attempt and no sleep.
C8_OtherErrorAborts ==
    \A t \in Threads : \A i \in DOMAIN log[t] :
        log[t][i] = "other_error" =>
            /\ fetched[t] = FetchRaise(Exc("OtherError", "provider failure"))
            /\ \A j \in DOMAIN log[t] :
                   i < j => log[t][j] \notin (FetchEvents \ {"close"})
            /\ Count(log[t], "other_error") = 1

C8_Witness ==
    \E t \in Threads :
        /\ Count(log[t], "other_error") = 1
        /\ Count(log[t], "sleep") >= 1
        /\ fetched[t].tag = "raise"

\* the StreamInfo list a selection function chose from
SelCandidates ==
    IF sel_out.fn = "get_video_streams" THEN video_candidates(sel_in.formats)
    ELSE IF sel_out.fn = "get_audio_streams" THEN audio_candidates(sel_in.formats)
    ELSE IF sel_out.fn = "process_video_streams"
    THEN unified_video_candidates(video_formats_of(sel_in.formats, TRUE),
                                  sel_in.video_codec)
    ELSE unified_audio_candidates(audio_formats_of(sel_in.formats, TRUE),
                                  sel_in.audio_codec)

SelReturned == sel_out.outcome.tag = "return"

\* C9: every StreamInfo returned by get_video_streams, get_audio_streams or a
\* branch worker of get_unified_streams has a non-empty url that does not
\* contain 'manifest'.
C9_ReturnedUrlPlayable ==
    SelReturned =>
        \A i \in DOMAIN sel_out.outcome.val :
            /\ sel_out.outcome.val[i].url # <<>>
            /\ ~Contains(sel_out.outcome.val[i].url, StrManifest)

\* C10: when some video candidate has the target height, get_video_streams and
\* the unified video worker return a candidate of that height whose bitrate
\* (None as 0) is not below that of any other candidate of that height, and the
\* earliest one among those of that highest bitrate.
C10_ExactMatchHighestBitrate ==
    (SelReturned /\ sel_out.fn \in {"get_video_streams", "process_video_streams"}) =>
        LET cands == SelCandidates
            target == _parse_quality(sel_in.quality)
            exact == {i \in DOMAIN cands : cands[i].height = PyInt(target)}
        IN  exact # {} =>
                /\ Len(sel_out.outcome.val) = 1
                /\ \E i \in exact :
                      /\ sel_out.outcome.val[1] = cands[i]
                      /\ \A j \in exact :
                            /\ OrZero(cands[j].bitrate) <= OrZero(cands[i].bitrate)
                            /\ j < i => OrZero(cands[j].bitrate) < OrZero(cands[i].bitrate)

C10_Witness ==
    /\ SelReturned
    /\ sel_out.fn = "process_video_streams"
    /\ Truthy(sel_in.video_codec)
    /\ LET cands == SelCandidates
       IN  /\ Len(cands) = 2
           /\ cands[1].height = PyInt(1080) /\ cands[2].height = PyInt(1080)
           /\ cands[1].bitrate = cands[2].bitrate
           /\ sel_out.outcome.val[1] = cands[1]

\* the height of a candidate, a missing or None height counting as 0
HeightOrZero(s) == IF s.height.k = "int" THEN s.height.n ELSE 0

\* C11: when no video candidate has the target height (a target of 0 from an
\* unparseable token included), get_video_streams and the unified video
\* worker return the candidate whose height (missing as 0) is closest to the
\* target, the earliest one among the closest.
C11_ClosestHeightEarliest ==
    (SelReturned /\ sel_out.fn \in {"get_video_streams", "process_video_streams"}) =>
        LET cands == SelCandidates
            target == _parse_quality(sel_in.quality)
            exact == {i \in DOMAIN cands : cands[i].height = PyInt(target)}
            dist(i) == Abs(HeightOrZero(cands[i]) - target)
        IN  exact = {} =>
                /\ Len(sel_out.outcome.val) = 1
                /\ \E i \in DOMAIN cands :
                      /\ sel_out.outcome.val[1] = cands[i]
                      /\ \A j \in DOMAIN cands :
                            /\ dist(i) <= dist(j)
                            /\ j < i => dist(i) < dist(j)

C11_Witness ==
    /\ SelReturned
    /\ sel_out.fn = "get_video_streams"
    /\ sel_in.quality = Quality720p
    /\ LET cands == SelCandidates
       IN  /\ Len(cands) = 2
           /\ cands[1].height = PyInt(1080) /\ cands[2].height = PyInt(360)
           /\ sel_out.outcome.val[1] = cands[1]

\* the StreamInfo list an audio selection chose from, after the codec filter
SelAudioList ==
    IF sel_out.fn = "get_audio_streams"
    THEN audio_apply_codec(audio_candidates(sel_in.formats), sel_in.audio_codec)
    ELSE unified_audio_candidates(audio_formats_of(sel_in.formats, TRUE),
                                  sel_in.audio_codec)

\* C12: get_audio_streams and the unified audio worker return the candidate of
\* the codec-filtered list whose bitrate is closest to the target bitrate, the
\* earliest one among the closest, with or without an exact match in the list.
C12_ClosestBitrateEarliest ==
    (SelReturned /\ sel_out.fn \in {"get_audio_streams", "process_audio_streams"}) =>
        LET cands == SelAudioList
            dist(i) == Abs(OrZero(cands[i].bitrate) - sel_in.bitrate)
        IN  /\ Len(sel_out.outcome.val) = 1
            /\ \E i \in DOMAIN cands :
                  /\ sel_out.outcome.val[1] = cands[i]
                  /\ \A j \in DOMAIN cands :
                        /\ dist(i) <= dist(j)
                        /\ j < i => dist(i) < dist(j)

C12_Witness ==
    /\ SelReturned
    /\ sel_out.fn = "process_audio_streams"
    /\ Truthy(sel_in.audio_codec)
    /\ LET cands == SelAudioList
       IN  /\ Len(cands) = 2
           /\ cands[1].bitrate = PyInt(64) /\ cands[2].bitrate = PyInt(192)
           /\ sel_out.outcome.val[1] = cands[1]

\* the pre-filtered formats a branch worker of get_unified_streams was given
BranchFormats ==
    IF sel_out.fn = "process_video_streams"
    THEN video_formats_of(sel_in.formats, TRUE)
    ELSE audio_formats_of(sel_in.formats, TRUE)

\* does format i of the branch match the codec argument of the branch
BranchMatch(i) ==
    IF sel_out.fn = "process_video_streams"
    THEN video_codec_match(sel_in.video_codec.s, BranchFormats[i].vcodec.s)
    ELSE audio_codec_match(sel_in.audio_codec.s, BranchFormats[i].acodec.s)

BranchCodec ==
    IF sel_out.fn = "process_video_streams" THEN sel_in.video_codec
    ELSE sel_in.audio_codec

\* C13: a branch worker of get_unified_streams given a codec and formats none
\* of which matches it raises a ValueError that lists the codecs of its
\* formats; when it returns, the returned entry matches the codec.
C13_UnifiedCodecFilterStrict ==
    ( /\ sel_out.fn \in {"process_video_streams", "process_audio_streams"}
      /\ Truthy(BranchCodec)
      /\ BranchFormats # <<>> ) =>
        IF \A i \in DOMAIN BranchFormats : ~BranchMatch(i)
        THEN /\ sel_out.outcome.tag = "raise"
             /\ sel_out.outcome.exc.type = "ValueError"
             /\ sel_out.outcome.exc.codecs =
                    { IF sel_out.fn = "process_video_streams"
                      THEN BranchFormats[i].vcodec.s ELSE BranchFormats[i].acodec.s :
                        i \in DOMAIN BranchFormats }
        ELSE /\ SelReturned
             /\ \E i \in DOMAIN BranchFormats :
                   /\ BranchMatch(i)
                   /\ sel_out.outcome.val[1].format_id = BranchFormats[i].format_id
                   /\ sel_out.outcome.val[1].url = BranchFormats[i].url.s

C13_Witness ==
    /\ sel_out.fn = "process_video_streams"
    /\ Truthy(sel_in.video_codec)
    /\ Len(BranchFormats) = 2
    /\ sel_out.outcome.tag = "raise"
    /\ sel_out.outcome.exc.codecs = {CodecVp09}

\* C14: get_audio_streams given a codec that no audio candidate matches returns
\* the closest-bitrate entry of all candidates; given a codec that some
\* candidate matches, it returns a matching candidate.
C14_SingleAudioFallback ==
    LET all == audio_candidates(sel_in.formats)
        matching == {i \in DOMAIN all : audio_codec_filter(sel_in.audio_codec.s, all[i])}
        dist(i) == Abs(OrZero(all[i].bitrate) - sel_in.bitrate)
    IN  ( /\ sel_out.fn = "get_audio_streams"
          /\ Truthy(sel_in.audio_codec)
          /\ all # <<>> ) =>
            /\ SelReturned
            /\ Len(sel_out.outcome.val) = 1
            /\ IF matching = {}
               THEN \E i \in DOMAIN all :
                       /\ sel_out.outcome.val[1] = all[i]
                       /\ \A j \in DOMAIN all :
                             /\ dist(i) <= dist(j)
                             /\ j < i => dist(i) < dist(j)
               ELSE \E i \in matching : sel_out.outcome.val[1] = all[i]

C14_Witness ==
    LET all == audio_candidates(sel_in.formats)
    IN  /\ sel_out.fn = "get_audio_streams"
        /\ Truthy(sel_in.audio_codec)
        /\ Len(all) = 2
        /\ \A i \in DOMAIN all : ~audio_codec_filter(sel_in.audio_codec.s, all[i])
        /\ all[1].bitrate = PyInt(192) /\ all[2].bitrate = PyInt(128)
        /\ SelReturned
        /\ sel_out.outcome.val[1] = all[2]

\* the heights documented for the k-notation and alias tokens
DocumentedHeights ==
    { <<<<"2","k">>, 1440>>, <<<<"4","k">>, 2160>>, <<<<"8","k">>, 4320>>,
      <<<<"1","k">>, 1080>>,
      <<<<"h","d">>, 720>>, <<<<"h","i","g","h">>, 720>>,
      <<<<"f","h","d">>, 1080>>, <<<<"f","u","l","l"," ","h","d">>, 1080>>,
      <<<<"f","u","l","l","h","d">>, 1080>>,
      <<<<"q","h","d">>, 1440>>, <<<<"q","u","a","d"," ","h","d">>, 1440>>,
      <<<<"q","u","a","d","h","d">>, 1440>>,
      <<<<"u","h","d">>, 2160>>, <<<<"u","l","t","r","a"," ","h","d">>, 2160>>,
      <<<<"u","l","t","r","a","h","d">>, 2160>> }

\* a number written before the trailing 'p': digits, possibly after a sign,
\* possibly with spaces around
NumberText(s) ==
    LET t == Strip(s)
    IN  /\ t # <<>>
        /\ IF t[1] \in {"+", "-"} THEN IsDigit(Tail(t)) ELSE IsDigit(t)

NumberValue(s) ==
    LET t == Strip(s)
    IN  IF t[1] = "-" THEN 0 - DigitsValue(Tail(t), 0)
        ELSE IF t[1] = "+" THEN DigitsValue(Tail(t), 0)
        ELSE DigitsValue(t, 0)

ParsedHeight == sel_out.outcome.val[1].n

\* C15: _parse_quality returns, for a token taken in lower case without the
\* surrounding whitespace: n for '<n>p', the documented height for a
\* k-notation or alias token, the value of an all-digit token, and 0 for the
\* empty token and every other token; it always returns.
C15_ParseQualityTables ==
    sel_out.fn = "_parse_quality" =>
        LET tok == Strip(Lower(sel_in.quality))
            prefix == SubSeq(tok, 1, Len(tok) - 1)
        IN  /\ sel_out.outcome.tag = "return"
            /\ IF tok # <<>> /\ tok[Len(tok)] = "p" /\ NumberText(prefix)
               THEN ParsedHeight = NumberValue(prefix)
               ELSE IF \E e \in DocumentedHeights : e[1] = tok
               THEN \E e \in DocumentedHeights : e[1] = tok /\ ParsedHeight = e[2]
               ELSE IF IsDigit(tok)
               THEN ParsedHeight = DigitsValue(tok, 0)
               ELSE ParsedHeight = 0

C15_Witness ==
    /\ sel_out.fn = "_parse_quality"
    /\ sel_in.quality = <<" ", "1", "K", " ">>
    /\ ParsedHeight = 1080

\* C16: the height returned by _parse_quality is never negative.
C16_TargetHeightNonNegative ==
    sel_out.fn = "_parse_quality" => ParsedHeight >= 0

\* the step is a check_status call of thread t
StatusStep(t) ==
    /\ op'[t] = "status"
    /\ <<op[t], ret[t], log[t]>> # <<op'[t], ret'[t], log'[t]>>

\* C17: when the provider call of check_status raised a DownloadError, the
\* result has available = false, error = the message, and the status of the
\* first of 'Private video', 'Video unavailable', 'age-restricted', 'removed'
\* that the message contains, 'error' when it contains none.
C17_FirstMatchClassification ==
    \A t \in Threads :
        (op[t] = "status" /\ Count(log[t], "status_download_error") = 1) =>
            LET st == ret[t].status
                msg == st.error.s
            IN  /\ ret[t].tag = "return"
                /\ st.available = FALSE
                /\ st.error.k = "str" /\ st.error.prefix = ""
                /\ st.status =
                      IF Contains(msg, StrPrivateVideo) THEN "private"
                      ELSE IF Contains(msg, StrVideoUnavailable) THEN "unavailable"
                      ELSE IF Contains(msg, StrAgeRestricted) THEN "age_restricted"
                      ELSE IF Contains(msg, StrRemoved) THEN "removed"
                      ELSE "error"

C17_Witness ==
    \E t \in Threads :
        /\ op[t] = "status"
        /\ Count(log[t], "status_download_error") = 1
        /\ ret[t].status.error.s = Join(<<StrRemoved, StrPrivateVideo>>)
        /\ ret[t].status.status = "private"

\* C18: a check_status call is one step with one provider call on an instance
\* of its own: it leaves every thread's cached instance as it was, returns
\* (never raises), maps a result to 'available', an empty result to
\* 'unavailable', a DownloadError to a status of the table or 'error', any
\* other exception to 'error', and has available true exactly when the
\* status is 'available'.
C18_StatusProbeTotal ==
    [][\A t \in Threads :
          StatusStep(t) =>
              LET st == ret'[t].status
                  kinds == {k \in StatusKinds : Count(log'[t], "status_" \o k) = 1}
              IN  /\ CanCall(t)
                  /\ pc'[t] = "done"
                  /\ local_ydl' = local_ydl
                  /\ Count(log'[t], "status_extract") = 1
                  /\ \A i \in DOMAIN log'[t] :
                         log'[t][i] \notin FetchEvents \cup {"fetch_begin", "fetch_end", "del"}
                  /\ Cardinality(kinds) = 1
                  /\ ret'[t].tag = "return"
                  /\ "info" \in kinds => st.status = "available"
                  /\ "empty" \in kinds => st.status = "unavailable"
                  /\ "download_error" \in kinds =>
                         st.status \in {"private", "unavailable", "age_restricted",
                                        "removed", "error"}
                  /\ "other_error" \in kinds => st.status = "error"
                  /\ st.available <=> st.status = "available"]_vars

C18_Witness ==
    \E t \in Threads :
        /\ op[t] = "status"
        /\ pc[t] = "done"
        /\ Count(log[t], "status_other_error") = 1
        /\ ret[t].status.status = "error"
        /\ local_ydl[t] # NoYdl /\ ~local_ydl[t].closed

\* the step changes nothing of thread t's own call
Resting(t) ==
    <<pc[t], op[t], log[t], attempt[t]>> = <<pc'[t], op'[t], log'[t], attempt'[t]>>

\* C19: an instance cached for a thread was created by that thread, is changed
\* by that thread's own steps only, and is never replaced by another one: it
\* can only be closed by its thread's fetch or removed by its thread's cleanup.
C19_InstancePerThread ==
    [][\A t \in Threads :
          /\ local_ydl'[t] # NoYdl => local_ydl'[t].creator = t
          /\ local_ydl'[t] # local_ydl[t] => ~Resting(t)
          /\ (local_ydl[t] # NoYdl /\ local_ydl'[t] # local_ydl[t]) =>
                 \/ local_ydl'[t] = NoYdl /\ op'[t] = "cleanup"
                 \/ local_ydl'[t] = [local_ydl[t] EXCEPT !.closed = TRUE]]_vars

C19_Witness ==
    /\ local_ydl["t1"] = [creator |-> "t1", closed |-> TRUE]
    /\ local_ydl["t2"] = [creator |-> "t2", closed |-> FALSE]
    /\ pc["t1"] = "fetch" /\ attempt["t1"] >= 1
    /\ pc["t2"] = "fetch" /\ attempt["t2"] >= 1

\* C20: when a cleanup() call returns, no thread's cached instance is open.
C20_CleanupReleasesAll ==
    [][\A t \in Threads :
          Cleanup(t) =>
              /\ ret'[t].tag = "return"
              /\ \A u \in Threads : local_ydl'[u] = NoYdl \/ local_ydl'[u].closed]_vars

\* the events of a provider call
ExtractEvents == {"extract", "extract_closed"}

\* C21: the fetch path never closes a cached instance: no cached instance is
\* closed, and no provider call goes through a closed instance.
C21_FetchNeverCloses ==
    \A t \in Threads :
        /\ ~local_ydl[t].closed
        /\ Count(log[t], "extract_closed") = 0
        /\ op[t] # "cleanup" => Count(log[t], "close") = 0

\* C23: in one _get_ytdlp_info call no provider attempt follows an attempt
\* that returned an empty result.
C23_EmptyNotRetried ==
    \A t \in Threads : \A i, j \in DOMAIN log[t] :
        (log[t][i] = "empty" /\ i < j) => log[t][j] \notin ExtractEvents

\* C24: in one _get_ytdlp_info call, a DownloadError followed by another
\* attempt has exactly one sleep between the two, a sleep comes only after a
\* DownloadError and before another attempt, and nothing but the end of the
\* fetch follows the last attempt or a result.
C24_OneSleepBetweenAttempts ==
    \A t \in Threads : \A i \in DOMAIN log[t] :
        LET l == log[t]
            later == {j \in DOMAIN l : i < j /\ l[j] \in ExtractEvents}
            next == IF later = {} THEN Len(l) + 1
                    ELSE CHOOSE j \in later : \A k \in later : j <= k
            between == {j \in DOMAIN l : i < j /\ j < next /\ l[j] = "sleep"}
            earlier == Cardinality({j \in DOMAIN l : j <= i /\ l[j] \in ExtractEvents})
        IN  /\ (l[i] = "download_error" /\ later # {}) => Cardinality(between) = 1
            /\ (l[i] = "download_error" /\ earlier = max_retries) => between = {}
            /\ l[i] \in {"info", "empty", "other_error"} => between = {}
            /\ l[i] = "sleep" =>
                   /\ i > 2 /\ l[i - 1] = "close" /\ l[i - 2] = "download_error"
                   /\ pc[t] = "fetch" => (later # {} \/ HasAttempt(t))
                   /\ pc[t] # "fetch" => later # {}

C24_Witness ==
    \E t \in Threads :
        /\ max_retries = 2
        /\ Count(log[t], "download_error") = 2
        /\ Count(log[t], "sleep") = 1
        /\ fetched[t].tag = "raise"

\* C25: a get_unified_streams call whose fetch returned a non-empty format
\* list always gets to dispatch its branches: no descriptor makes the
\* pre-filter fail the call.
C25_PrefilterNeverFails ==
    \A t \in Threads :
        ( /\ UnifiedDone(t)
          /\ fetched[t].tag = "return"
          /\ FormatsOf(fetched[t].val) # <<>> ) =>
            \E b \in Branches : futures[t][b].state # "none"

\* C22: a get_unified_streams call one of whose branches timed out ends
\* (returns or raises), whether or not the branch task ever finishes.
C22_TimedOutCallResolves ==
    \A t \in Callers :
        ( /\ op[t] = "unified"
          /\ pc[t] \in {"wait", "shutdown"}
          /\ \E b \in Branches : futures[t][b].waited = "timeout" ) ~> (pc[t] = "done")

\* C26: for the codec argument and every descriptor given to an audio path,
\* the single-stream filter and the unified filter both retain the descriptor
\* exactly when, in lower case, the argument is contained in its codec, or the
\* argument is aac or mp4a and the codec contains 'mp4a', or the argument is
\* opus and the codec contains 'opus'.
C26_SameAudioCodecRule ==
    ( /\ sel_out.fn \in {"get_audio_streams", "process_audio_streams"}
      /\ Truthy(sel_in.audio_codec) ) =>
        \A i \in DOMAIN sel_in.formats :
            LET token == Lower(sel_in.audio_codec.s)
                have == Lower(sel_in.formats[i].acodec.s)
                rule == \/ Contains(have, token)
                        \/ token \in {StrAac, StrMp4a} /\ Contains(have, StrMp4a)
                        \/ token = StrOpus /\ Contains(have, StrOpus)
            IN  /\ audio_codec_filter(sel_in.audio_codec.s,
                                      audio_stream(sel_in.formats[i])) = rule
                /\ audio_codec_match(sel_in.audio_codec.s,
                                     sel_in.formats[i].acodec.s) = rule

====
